---- MODULE Spec2Model ----
(***************************************************************************)
(* State-machine model of the LRL agent layers:                            *)
(*   ReplayBufferAgent (src/LRL/replayBuffer.py),                          *)
(*   TargetQAgent      (src/LRL/targetDQN.py),                             *)
(*   A2C               (src/LRL/A2C.py).                                   *)
(* Each layer has its own specification (SpecRB, SpecTQ, SpecCR, SpecAC);  *)
(* the variables of the other layers stay at their initial value.          *)
(***************************************************************************)
EXTENDS Integers, Sequences, FiniteSets, TLC

\* ------------------------------------------------------------------ bounds
\* largest replay_buffer_capacity the constructor is given
MaxCapacity == 2
\* largest number of parallel environments
MaxEnvs == 2
\* largest target_update the config holds
MaxTargetUpdate == 3
\* frames a run of the target-network agent sees
MaxFrames == 6
\* largest rollout the config holds
MaxRollout == 3
\* largest rollout buffer, in (time slot, environment) cells
MaxCells == 4
\* update() calls a run of the A2C agent makes
MaxUpdates == 2
\* see calls the driver makes on a stack of layers
MaxSeen == 3
\* the config's magnitude_logging_fraction
MagnitudeLoggingFraction == 2

\* ------------------------------------------------------------ environment
\* Observations, actions and the transitions the driver hands to see():
\* a two-state chain whose transitions differ in state, reward, next state
\* and done.
Obs == {0, 1}
Actions == {1}
Transitions ==
    {<<s, a, r, s2, d>> \in Obs \X Actions \X {0, 1} \X Obs \X BOOLEAN :
        /\ s2 = (s + a) % 2
        /\ d = (s2 = 1)
        /\ r = IF d THEN 1 ELSE 0}

BatchSizes == 0 .. (MaxCapacity + 1)
Names == {"ckpt"}
NoFile == <<"absent">>
None == <<"None">>

VARIABLES
    \* every layer
    op,                     \* the call that ran last, with its arguments
    ret,                    \* what that call returned or raised
    \* ReplayBufferAgent
    replay_buffer_capacity, \* self.replay_buffer_capacity
    buffer,                 \* self.buffer, slot i of the list is buffer[i+1]
    pos,                    \* self.pos
    memfile,                \* the file <name>-memory, per name
    drawn,                  \* the slots random.sample drew, when the last call was sample
    recent,                 \* the last `capacity` memorized transitions, oldest first
    nmemorized,             \* memorize calls since construction, counted up to capacity + 1
    fresh,                  \* no load has replaced the memory since construction
    delegated,              \* what the next layer's see found when the last see called it
    saved,                  \* per name: buffer and pos at the last save of the memory
    \* TargetQAgent
    num_envs,               \* self.env.num_envs
    target_update,          \* self.config.target_update
    frames_done,            \* self.frames_done
    q_net,                  \* parameters of self.q_net, the online network
    target_net,             \* parameters of self.target_net
    netfile,                \* the online weights the lower layers saved, per name
    synced,                 \* the online parameters as of the most recent hard sync
    see_syncs,              \* see calls that ran the hard sync
    \* A2C
    rollout,                \* self.rollout
    gamma,                  \* self.gamma, a rational <<numerator, denominator>>
    rewards,                \* self.rewards, rollout x num_envs
    dones,                  \* self.dones, (rollout + 1) x num_envs
    returns,                \* self.returns, (rollout + 1) x num_envs
    values,                 \* the value estimates handed to compute_returns
    step,                   \* self.step
    observations,           \* self.observations, (rollout + 1) x num_envs
    actions,                \* self.actions, (rollout + 1) x num_envs
    policy,                 \* parameters of self.policy
    critic_loss_weight,     \* self.critic_loss_weight
    entropy_loss_weight,    \* self.entropy_loss_weight
    noisy,                  \* config "linear_layer" is NoisyLinear
    logger,                 \* self.logger, the channels this layer appends to
    loss,                   \* the loss the last update() backpropagated
    nsee,                   \* see calls since construction
    nupdates,               \* update() calls since construction
    cycle,                  \* the transitions of the see calls since step was last 0
    policyfile,             \* the file <name>-net, per name
    \* a stack of layers
    stack,                  \* the layers of the composed agent, the outermost first
    events,                 \* the last call: each layer's own logic, in the order it ran
    issued,                 \* the transitions the driver passed to see, in order
    observed                \* the transitions the base Agent's see was called with, in order

rbVars == <<replay_buffer_capacity, buffer, pos, memfile, drawn,
            recent, nmemorized, fresh, delegated, saved>>

tqVars == <<num_envs, target_update, frames_done, q_net, target_net, netfile,
            synced, see_syncs>>

crVars == <<rollout, gamma, rewards, dones, returns, values>>

acVars == <<step, observations, actions, policy, critic_loss_weight,
            entropy_loss_weight, noisy, logger, loss, nsee, nupdates, cycle,
            policyfile>>

stVars == <<stack, events, issued, observed>>

vars == <<op, ret, rbVars, tqVars, crVars, acVars, stVars>>

\* what the calls of one layer leave alone: the other layers' fields
outsideRB == <<tqVars, crVars, acVars, stVars>>
outsideTQ == <<rbVars, crVars, acVars, stVars>>
outsideAC == <<rbVars, tqVars, stVars>>

\* ------------------------------------------------------------- primitives
Min(a, b) == IF a < b THEN a ELSE b

Raise(e) == <<"raise", e>>
Return(v) == <<"return", v>>

\* np.expand_dims(x, 0): a new leading axis of length 1
expand_dims(x) == <<x>>

RECURSIVE concatenate(_)
\* np.concatenate(arrays): joins the arrays along the leading axis
concatenate(arrays) ==
    IF arrays = <<>> THEN <<>> ELSE Head(arrays) \o concatenate(Tail(arrays))

\* np.ones((n))
ones(n) == [i \in 1 .. n |-> 1]

\* pickle.dump / pickle.load of one object
pickle_dump(obj) == [pickled |-> obj]
pickle_load(blob) == blob.pickled

\* a layer that is not part of the agent under study
IdleRB ==
    /\ replay_buffer_capacity = 1
    /\ buffer = <<>>
    /\ pos = 0
    /\ memfile = [n \in Names |-> NoFile]
    /\ drawn = <<>>
    /\ recent = <<>>
    /\ nmemorized = 0
    /\ fresh = TRUE
    /\ delegated = None
    /\ saved = [n \in Names |-> None]

IdleTarget ==
    /\ target_update = 1
    /\ q_net = <<>>
    /\ target_net = <<>>
    /\ netfile = [n \in Names |-> NoFile]
    /\ synced = <<>>
    /\ see_syncs = 0

IdleTQ ==
    /\ num_envs = 1
    /\ frames_done = 0
    /\ IdleTarget

IdleAC ==
    /\ step = 0
    /\ observations = <<>>
    /\ actions = <<>>
    /\ policy = <<>>
    /\ critic_loss_weight = 1
    /\ entropy_loss_weight = 0
    /\ noisy = FALSE
    /\ logger = <<>>
    /\ loss = <<0, 1>>
    /\ nsee = 0
    /\ nupdates = 0
    /\ cycle = <<>>
    /\ policyfile = [n \in Names |-> NoFile]

IdleST ==
    /\ stack = <<>>
    /\ events = <<>>
    /\ issued = <<>>
    /\ observed = <<>>

IdleCR ==
    /\ rollout = 1
    /\ gamma = <<0, 1>>
    /\ rewards = <<>>
    /\ dones = <<>>
    /\ returns = <<>>
    /\ values = <<>>
    /\ IdleAC

\* ------------------------------------------------------ ReplayBufferAgent
\* the tuple memorize stores
stored(tr) == <<expand_dims(tr[1]), tr[2], tr[3], expand_dims(tr[4]), tr[5]>>

\* (mutant) the capacity test off by one
memorize_buffer_le(buf, p, cap, tr) ==
    IF Len(buf) <= cap
    THEN Append(buf, stored(tr))
    ELSE [buf EXCEPT ![p + 1] = stored(tr)]

\* the buffer after memorize: append below capacity, else overwrite slot pos
memorize_buffer(buf, p, cap, tr) ==
    IF Len(buf) < cap
    THEN Append(buf, stored(tr))
    ELSE [buf EXCEPT ![p + 1] = stored(tr)]

\* (mutant) the cursor is not advanced
memorize_pos_stuck(p, cap) == p

\* the cursor after memorize
memorize_pos(p, cap) == (p + 1) % cap

\* the last `cap` memorized transitions, oldest first
remember(rec, cap, tr) ==
    IF Len(rec) < cap THEN Append(rec, stored(tr)) ELSE Append(Tail(rec), stored(tr))

memorize(tr) ==
    /\ buffer' = memorize_buffer(buffer, pos, replay_buffer_capacity, tr)
    /\ pos' = memorize_pos(pos, replay_buffer_capacity)
    /\ recent' = remember(recent, replay_buffer_capacity, tr)
    /\ nmemorized' = Min(nmemorized + 1, replay_buffer_capacity + 1)

RB_memorize ==
    \E tr \in Transitions :
        /\ memorize(tr)
        /\ op' = <<"memorize">>
        /\ ret' = Return(None)
        /\ drawn' = <<>>
        /\ delegated' = None
        /\ UNCHANGED <<replay_buffer_capacity, memfile, fresh, saved>>
        /\ UNCHANGED outsideRB
\* (mutant) the next layer's see is called before memorize
see_delegation_first(buf, p, cap, tr) ==
    [args |-> tr, buffer |-> buf, pos |-> p]

\* the arguments, the buffer and the cursor as they are when see calls
\* super().see
see_delegation(buf, p, cap, tr) ==
    [args |-> tr,
     buffer |-> memorize_buffer(buf, p, cap, tr),
     pos |-> memorize_pos(p, cap)]

\* see: memorize, then the next layer's see (the base Agent's, which keeps
\* none of this layer's state)
RB_see ==
    \E tr \in Transitions :
        /\ memorize(tr)
        /\ delegated' = see_delegation(buffer, pos, replay_buffer_capacity, tr)
        /\ op' = <<"see">>
        /\ ret' = Return(None)
        /\ drawn' = <<>>
        /\ UNCHANGED <<replay_buffer_capacity, memfile, fresh, saved>>
        /\ UNCHANGED outsideRB
\* (mutant) a draw with replacement
random_choices(population, k) == [1 .. k -> 1 .. Len(population)]

\* random.sample(population, k): the slot sequences it can draw
random_sample(population, k) ==
    {f \in [1 .. k -> 1 .. Len(population)] :
        \A i, j \in 1 .. k : i # j => f[i] # f[j]}

\* what sample returns for the drawn slots
sample_result(buf, idx, batch_size) ==
    IF batch_size = 0
    THEN Raise("ValueError")   \* zip() yields nothing to unpack into 5 names
    ELSE Return(<<concatenate([i \in 1 .. batch_size |-> buf[idx[i]][1]]),
                  [i \in 1 .. batch_size |-> buf[idx[i]][2]],
                  [i \in 1 .. batch_size |-> buf[idx[i]][3]],
                  concatenate([i \in 1 .. batch_size |-> buf[idx[i]][4]]),
                  [i \in 1 .. batch_size |-> buf[idx[i]][5]],
                  ones(batch_size)>>)

\* (mutant) a batch size above the occupancy is cut down to it
sample_outcomes_clamped(buf, batch_size) ==
    {<<sample_result(buf, idx, Min(batch_size, Len(buf))), idx>> :
        idx \in random_sample(buf, Min(batch_size, Len(buf)))}

\* sample: <<returned or raised, slots drawn>>; random.sample raises ValueError
\* when batch_size is larger than the population
sample_outcomes(buf, batch_size) ==
    IF batch_size > Len(buf)
    THEN {<<Raise("ValueError"), <<>>>>}
    ELSE {<<sample_result(buf, idx, batch_size), idx>> :
             idx \in random_sample(buf, batch_size)}

\* (mutant) as many transitions as were drawn are popped off the list
sample_buffer_popped(buf, idx) == SubSeq(buf, 1, Len(buf) - Len(idx))

\* self.buffer after sample: random.sample and zip read the list only
sample_buffer(buf, idx) == buf

RB_sample ==
    \E batch_size \in BatchSizes :
        /\ op' = <<"sample", batch_size>>
        /\ \E out \in sample_outcomes(buffer, batch_size) :
               /\ ret' = out[1]
               /\ drawn' = out[2]
               /\ buffer' = sample_buffer(buffer, out[2])
        /\ delegated' = None
        /\ UNCHANGED <<replay_buffer_capacity, pos, memfile,
                       recent, nmemorized, fresh, saved>>
        /\ UNCHANGED outsideRB

\* the priorities a caller hands in: one per transition of a batch, or none
Priorities == {ones(n) : n \in 0 .. 2}

\* update_priorities: pass
RB_update_priorities ==
    \E batch_priorities \in Priorities :
        /\ op' = <<"update_priorities", batch_priorities>>
        /\ ret' = Return(None)
        /\ drawn' = <<>>
        /\ delegated' = None
        /\ UNCHANGED <<replay_buffer_capacity, buffer, pos, memfile,
                       recent, nmemorized, fresh, saved>>
        /\ UNCHANGED outsideRB
\* write_memory: the buffer, then the cursor
write_memory(buf, p) == <<pickle_dump(buf), pickle_dump(p)>>

\* read_memory: the buffer, then the cursor
read_memory_buffer(mem_f) == pickle_load(mem_f[1])

\* (mutant) the cursor is not restored but reset
read_memory_pos_reset(mem_f) == 0

read_memory_pos(mem_f) == pickle_load(mem_f[2])

RB_save ==
    \E name \in Names, save_replay_memory \in BOOLEAN :
        /\ op' = <<"save", name, save_replay_memory>>
        /\ ret' = Return(None)
        /\ memfile' = IF save_replay_memory
                      THEN [memfile EXCEPT ![name] = write_memory(buffer, pos)]
                      ELSE memfile
        /\ saved' = IF save_replay_memory
                    THEN [saved EXCEPT ![name] = <<buffer, pos>>]
                    ELSE saved
        /\ drawn' = <<>>
        /\ delegated' = None
        /\ UNCHANGED <<replay_buffer_capacity, buffer, pos,
                       recent, nmemorized, fresh>>
        /\ UNCHANGED outsideRB
RB_load ==
    \E name \in Names, load_replay_memory \in BOOLEAN :
        /\ op' = <<"load", name, load_replay_memory>>
        /\ IF ~load_replay_memory
           THEN /\ ret' = Return(None)
                /\ UNCHANGED <<buffer, pos, recent, fresh>>
           ELSE IF memfile[name] = NoFile
           THEN /\ ret' = Raise("FileNotFoundError")
                /\ UNCHANGED <<buffer, pos, recent, fresh>>
           ELSE /\ ret' = Return(None)
                /\ buffer' = read_memory_buffer(memfile[name])
                /\ pos' = read_memory_pos(memfile[name])
                /\ recent' = <<>>
                /\ fresh' = FALSE
        /\ drawn' = <<>>
        /\ delegated' = None
        /\ UNCHANGED <<replay_buffer_capacity, memfile, nmemorized, saved>>
        /\ UNCHANGED outsideRB
InitRB ==
    /\ replay_buffer_capacity \in 1 .. MaxCapacity
    /\ buffer = <<>>
    /\ pos = 0
    /\ memfile = [n \in Names |-> NoFile]
    /\ op = <<"__init__">>
    /\ ret = Return(None)
    /\ drawn = <<>>
    /\ recent = <<>>
    /\ nmemorized = 0
    /\ fresh = TRUE
    /\ delegated = None
    /\ saved = [n \in Names |-> None]
    /\ IdleTQ
    /\ IdleCR
    /\ IdleST

NextRB ==
    \/ RB_memorize
    \/ RB_see
    \/ RB_sample
    \/ RB_update_priorities
    \/ RB_save
    \/ RB_load

SpecRB == InitRB /\ [][NextRB]_vars

\* ----------------------------------------------------------- TargetQAgent
\* Parameters of a Q-network: one value per named tensor.
ParamNames == {"weight", "bias"}
Weights == {0, 1}
Params == [ParamNames -> Weights]

\* net.state_dict(): the tensors by name
state_dict(net) == [k \in DOMAIN net |-> net[k]]

\* net.load_state_dict(sd): every tensor of net takes the value sd gives it
load_state_dict(net, sd) == [k \in DOMAIN net |-> sd[k]]

\* the network's forward pass and value extraction on one observation
value(net, x) == net["weight"] * x + net["bias"]

\* unfreeze: copy policy net weights to target net
unfreeze(tgt, q) == load_state_dict(tgt, state_dict(q))

\* (mutant) the sync fires only when frames_done is a multiple of target_update
cadence_exact(frames, tu, ne) == frames % tu = 0

\* the condition of the periodic hard sync
cadence(frames, tu, ne) == frames % tu < ne

\* (mutant) the sync copies the online parameters as they were before the
\* lower layers' see ran
see_target_stale(tgt, q_before, q_after, frames, tu, ne) ==
    IF cadence(frames, tu, ne) THEN unfreeze(tgt, q_before) ELSE tgt

\* (mutant) every see syncs
see_target_always(tgt, q_before, q_after, frames, tu, ne) ==
    unfreeze(tgt, q_after)

\* the target parameters after see: q_before and q_after are the online
\* parameters before and after super().see, frames the counter after it
see_target(tgt, q_before, q_after, frames, tu, ne) ==
    IF cadence(frames, tu, ne) THEN unfreeze(tgt, q_after) ELSE tgt

\* the target parameters after load: q_after are the restored online ones
load_target(tgt, q_after) == unfreeze(tgt, q_after)

\* super().see of the layers below: the base Agent counts the frames and the
\* Q-learning layer may take a gradient step on the online network
lower_see_frames(frames, ne) == frames + ne
lower_see_q_net(q) == Params

\* see: super().see, then the hard sync when the cadence condition holds
\* (the transition itself is used by the layers below only)
TQ_see ==
    /\ frames_done + num_envs <= MaxFrames
    /\ op' = <<"see">>
    /\ ret' = Return(None)
    /\ frames_done' = lower_see_frames(frames_done, num_envs)
    /\ q_net' \in lower_see_q_net(q_net)
    /\ target_net' = see_target(target_net, q_net, q_net', frames_done',
                                target_update, num_envs)
    /\ IF cadence(frames_done', target_update, num_envs)
       THEN synced' = q_net' /\ see_syncs' = see_syncs + 1
       ELSE UNCHANGED <<synced, see_syncs>>
    /\ UNCHANGED <<num_envs, target_update, netfile>>
    /\ UNCHANGED outsideTQ

TQ_estimate_next_state ==
    \E next_state_b \in Obs :
        /\ op' = <<"estimate_next_state", next_state_b>>
        /\ ret' = Return(value(target_net, next_state_b))
        /\ UNCHANGED tqVars
        /\ UNCHANGED outsideTQ

\* act of the layers below: the online network picks the action
TQ_act ==
    \E s \in Obs :
        /\ op' = <<"act", s>>
        /\ ret' = Return(value(q_net, s))
        /\ UNCHANGED tqVars
        /\ UNCHANGED outsideTQ

\* save of the layers below: the online weights go to the checkpoint
TQ_save ==
    \E name \in Names :
        /\ op' = <<"save", name>>
        /\ ret' = Return(None)
        /\ netfile' = [netfile EXCEPT ![name] = state_dict(q_net)]
        /\ UNCHANGED <<num_envs, target_update, frames_done, q_net, target_net,
                       synced, see_syncs>>
        /\ UNCHANGED outsideTQ

\* load: super().load restores the online weights, then unfreeze
TQ_load ==
    \E name \in Names :
        /\ op' = <<"load", name>>
        /\ IF netfile[name] = NoFile
           THEN /\ ret' = Raise("FileNotFoundError")
                /\ UNCHANGED <<q_net, target_net, synced>>
           ELSE /\ ret' = Return(None)
                /\ q_net' = load_state_dict(q_net, netfile[name])
                /\ target_net' = load_target(target_net, q_net')
                /\ synced' = q_net'
        /\ UNCHANGED <<num_envs, target_update, frames_done, netfile, see_syncs>>
        /\ UNCHANGED outsideTQ

\* the target parameters after __init__
init_target(tgt, q) == unfreeze(tgt, q)

InitTQ ==
    /\ num_envs \in 1 .. MaxEnvs
    /\ target_update \in 1 .. MaxTargetUpdate
    /\ frames_done = 0
    /\ q_net \in Params
    /\ \E built \in Params : target_net = init_target(built, q_net)
    /\ netfile = [n \in Names |-> NoFile]
    /\ synced = q_net
    /\ see_syncs = 0
    /\ op = <<"__init__">>
    /\ ret = Return(None)
    /\ IdleRB
    /\ IdleCR
    /\ IdleST

NextTQ ==
    \/ TQ_see
    \/ TQ_estimate_next_state
    \/ TQ_act
    \/ TQ_save
    \/ TQ_load

SpecTQ == InitTQ /\ [][NextTQ]_vars

\* -------------------------------------------------------------------- A2C
\* Tensor entries are rationals <<numerator, denominator>>, denominator > 0,
\* in lowest terms; rewards, dones and value estimates are whole numbers.
RECURSIVE GCD(_, _)
GCD(a, b) == IF b = 0 THEN a ELSE GCD(b, a % b)

Abs(n) == IF n < 0 THEN -n ELSE n

QNorm(n, d) == LET g == GCD(Abs(n), d) IN <<n \div g, d \div g>>
QInt(n) == <<n, 1>>
QAdd(a, b) == QNorm(a[1] * b[2] + b[1] * a[2], a[2] * b[2])
QSub(a, b) == QNorm(a[1] * b[2] - b[1] * a[2], a[2] * b[2])
QMul(a, b) == QNorm(a[1] * b[1], a[2] * b[2])

\* the discounts, rewards, done flags and value estimates of the runs
Gammas == {<<0, 1>>, <<1, 2>>, <<1, 1>>}
RewardValues == {0, 1}
DoneValues == {0, 1}
ValueEstimates == {0, 5}

\* x[-1] and x.size(0) of a tensor indexed from 0
Last(x) == Cardinality(DOMAIN x) - 1
Size0(x) == Cardinality(DOMAIN x)

\* (mutant) the done mask applied to the reward as well
return_row_masked_reward(next_row, g, done_row, reward_row) ==
    [e \in DOMAIN next_row |->
        QMul(QAdd(QMul(next_row[e], g), QInt(reward_row[e])),
             QSub(QInt(1), QInt(done_row[e])))]

\* (mutant) no done mask
return_row_unmasked(next_row, g, done_row, reward_row) ==
    [e \in DOMAIN next_row |->
        QAdd(QMul(next_row[e], g), QInt(reward_row[e]))]

\* self.returns[step + 1] * self.gamma * (1 - self.dones[step + 1]) + self.rewards[step]
return_row(next_row, g, done_row, reward_row) ==
    [e \in DOMAIN next_row |->
        QAdd(QMul(QMul(next_row[e], g), QSub(QInt(1), QInt(done_row[e]))),
             QInt(reward_row[e]))]

RECURSIVE compute_returns_loop(_, _, _, _, _)
\* for step in reversed(range(self.rewards.size(0))), the iterations from
\* step = k down to step = 0
compute_returns_loop(rets, rew, dn, g, k) ==
    IF k < 0
    THEN rets
    ELSE compute_returns_loop(
             [rets EXCEPT ![k] = return_row(rets[k + 1], g, dn[k + 1], rew[k])],
             rew, dn, g, k - 1)

\* compute_returns: self.returns after the call
compute_returns(rets, vals, rew, dn, g) ==
    compute_returns_loop(
        [rets EXCEPT ![Last(rets)] = [e \in DOMAIN vals[Last(vals)] |-> QInt(vals[Last(vals)][e])]],
        rew, dn, g, Size0(rew) - 1)

CR_compute_returns ==
    /\ op = <<"__init__">>
    /\ op' = <<"compute_returns">>
    /\ ret' = Return(None)
    /\ returns' = compute_returns(returns, values, rewards, dones, gamma)
    /\ UNCHANGED <<rollout, gamma, rewards, dones, values>>
    /\ UNCHANGED <<rbVars, tqVars, acVars, stVars>>

\* the rollout buffer as update() hands it to compute_returns: dones[0] is
\* never written and stays 0, returns is as constructed; only the last row
\* of values is a free input, the other rows are 1
InitCR ==
    /\ rollout \in 1 .. MaxRollout
    /\ num_envs \in 1 .. MaxEnvs
    /\ rollout * num_envs <= MaxCells
    /\ gamma \in Gammas
    /\ rewards \in [0 .. rollout - 1 -> [1 .. num_envs -> RewardValues]]
    /\ dones \in [0 .. rollout -> [1 .. num_envs -> DoneValues]]
    /\ \A e \in 1 .. num_envs : dones[0][e] = 0
    /\ values \in [0 .. rollout -> [1 .. num_envs -> ValueEstimates \cup {1}]]
    /\ \A t \in 0 .. rollout - 1 : \A e \in 1 .. num_envs : values[t][e] = 1
    /\ \A e \in 1 .. num_envs : values[rollout][e] \in ValueEstimates
    /\ returns = [t \in 0 .. rollout |-> [e \in 1 .. num_envs |-> QInt(0)]]
    /\ frames_done = 0
    /\ op = <<"__init__">>
    /\ ret = Return(None)
    /\ IdleTarget
    /\ IdleRB
    /\ IdleAC
    /\ IdleST

NextCR == CR_compute_returns

SpecCR == InitCR /\ [][NextCR]_vars

\* ------------------------------------------------------- A2C: see, update
QNeg(a) == <<-a[1], a[2]>>
QDiv(a, n) == QNorm(a[1], a[2] * n)

RECURSIVE QSum(_)
QSum(xs) == IF xs = <<>> THEN QInt(0) ELSE QAdd(Head(xs), QSum(Tail(xs)))

\* tensor.mean() of a flat tensor
mean(xs) == QDiv(QSum(xs), Len(xs))

\* tensor.view(-1) of a (slots x num_envs x 1) tensor: slot-major
flat(x, ne) ==
    [k \in 1 .. Size0(x) * ne |-> x[(k - 1) \div ne][((k - 1) % ne) + 1]]

\* tensor[:-1] of a flat tensor, and of a tensor indexed by slot
all_but_last(xs) == SubSeq(xs, 1, Len(xs) - 1)
slots_but_last(x) == [t \in 0 .. Last(x) - 1 |-> x[t]]

\* The policy network on one observation: the critic's value estimate, the
\* log-probability of an action and the entropy of the action distribution.
log_prob(net, x, a) == QInt(-(1 + ((x + a + net["weight"]) % 2)))
entropy(net, x) == QInt(1 + ((x + net["bias"]) % 2))
magnitude(net) == net["weight"] + net["bias"]

\* optimizer.step(): the parameters move
optimizer_step(net) == [weight |-> net["bias"], bias |-> 1 - net["weight"]]

\* the loss channels this layer appends to
LoggerChannels == {"actor_loss", "critic_loss", "entropy_loss", "magnitude"}

\* (mutant) the entropy term added to the loss instead of subtracted
total_loss_entropy_added(actor_loss, critic_loss, dist_entropy, cw, ew) ==
    QAdd(QAdd(actor_loss, QMul(QInt(cw), critic_loss)),
         QMul(QInt(ew), dist_entropy))

\* loss = actor_loss + self.critic_loss_weight * critic_loss
\*        - self.entropy_loss_weight * dist_entropy
total_loss(actor_loss, critic_loss, dist_entropy, cw, ew) ==
    QSub(QAdd(actor_loss, QMul(QInt(cw), critic_loss)),
         QMul(QInt(ew), dist_entropy))

\* what update() computes from the rollout buffer: the value estimates, the
\* returns and the three loss terms
update(obs, acts, rew, dn, rets, net, g, cw, ew, ne) ==
    LET vals == [t \in DOMAIN obs |-> [e \in 1 .. ne |-> value(net, obs[t][e])]]
        action_log_probs ==
            slots_but_last([t \in DOMAIN obs |->
                [e \in 1 .. ne |-> log_prob(net, obs[t][e], acts[t][e])]])
        dist_entropy ==
            mean(all_but_last(flat([t \in DOMAIN obs |->
                [e \in 1 .. ne |-> entropy(net, obs[t][e])]], ne)))
        rets1 == compute_returns(rets, vals, rew, dn, g)
        advantages ==
            [t \in 0 .. Last(rets1) - 1 |->
                [e \in 1 .. ne |-> QSub(rets1[t][e], QInt(vals[t][e]))]]
        critic_loss ==
            mean(flat([t \in DOMAIN advantages |->
                [e \in 1 .. ne |-> QMul(advantages[t][e], advantages[t][e])]], ne))
        actor_loss ==
            QNeg(mean(flat([t \in DOMAIN advantages |->
                [e \in 1 .. ne |-> QMul(advantages[t][e], action_log_probs[t][e])]], ne)))
    IN  [values |-> vals,
         returns |-> rets1,
         actor_loss |-> actor_loss,
         critic_loss |-> critic_loss,
         entropy_loss |-> dist_entropy,
         loss |-> total_loss(actor_loss, critic_loss, dist_entropy, cw, ew)]

\* self.logger after update() appended the three scalars
update_logger(lg, u) ==
    [lg EXCEPT !["actor_loss"] = Append(@, u.actor_loss),
               !["critic_loss"] = Append(@, u.critic_loss),
               !["entropy_loss"] = Append(@, u.entropy_loss)]

\* (mutant) an episode end restarts the rollout
see_step_reset_on_done(st, ro, done) ==
    IF \E e \in DOMAIN done : done[e] THEN 0 ELSE (st + 1) % ro

\* (mutant) the counter is not wrapped
see_step_no_wrap(st, ro, done) == st + 1

\* self.step after see
see_step(st, ro, done) == (st + 1) % ro

\* the magnitude logging at the end of see
see_magnitude(lg, frames, ne, nz, net) ==
    IF frames % MagnitudeLoggingFraction < ne /\ nz
    THEN [lg EXCEPT !["magnitude"] = Append(@, magnitude(net))]
    ELSE lg

\* (mutant) the next observation is not written
see_observations_no_next(obs, st, trs) ==
    [obs EXCEPT ![st] = [e \in DOMAIN trs |-> trs[e][1]]]

\* the rollout buffer after see wrote the batch of transitions trs (one per
\* environment) at slot st: state and next_state, action, reward, done
see_observations(obs, st, trs) ==
    [obs EXCEPT ![st] = [e \in DOMAIN trs |-> trs[e][1]],
                ![st + 1] = [e \in DOMAIN trs |-> trs[e][4]]]

see_actions(acts, st, trs) ==
    [acts EXCEPT ![st] = [e \in DOMAIN trs |-> trs[e][2]]]

see_rewards(rew, st, trs) ==
    [rew EXCEPT ![st] = [e \in DOMAIN trs |-> trs[e][3]]]

\* done.astype(np.float32): True is 1.0, False 0.0
see_dones(dn, st, trs) ==
    [dn EXCEPT ![st + 1] = [e \in DOMAIN trs |-> IF trs[e][5] THEN 1 ELSE 0]]

A2C_see ==
    \E trs \in [1 .. num_envs -> Transitions] :
        LET obs1 == see_observations(observations, step, trs)
            act1 == see_actions(actions, step, trs)
            rew1 == see_rewards(rewards, step, trs)
            dn1 == see_dones(dones, step, trs)
        IN  /\ nupdates < MaxUpdates
            /\ cycle' = IF step = 0 THEN <<trs>> ELSE Append(cycle, trs)
            /\ op' = <<"see">>
            /\ ret' = Return(None)
            /\ nsee' = nsee + 1
            /\ frames_done' = lower_see_frames(frames_done, num_envs)
            /\ observations' = obs1
            /\ actions' = act1
            /\ rewards' = rew1
            /\ dones' = dn1
            /\ step' = see_step(step, rollout, [e \in 1 .. num_envs |-> trs[e][5]])
            /\ IF step' = 0
               THEN \E u \in {update(obs1, act1, rew1, dn1, returns, policy, gamma,
                                      critic_loss_weight, entropy_loss_weight,
                                      num_envs)} :
                    /\ values' = u.values
                    /\ returns' = u.returns
                    /\ loss' = u.loss
                    /\ policy' = optimizer_step(policy)
                    /\ nupdates' = nupdates + 1
                    /\ logger' = see_magnitude(update_logger(logger, u), frames_done',
                                               num_envs, noisy, policy')
               ELSE /\ UNCHANGED <<values, returns, loss, policy, nupdates>>
                    /\ logger' = see_magnitude(logger, frames_done', num_envs,
                                               noisy, policy)
            /\ UNCHANGED <<rollout, gamma, critic_loss_weight, entropy_loss_weight,
                           noisy, num_envs, policyfile>>
            /\ UNCHANGED <<target_update, q_net, target_net, netfile, synced,
                           see_syncs>>
            /\ UNCHANGED <<rbVars, stVars>>

\* the configs of the runs: gamma, critic_loss_weight, entropy_loss_weight
\* and whether the linear layers are NoisyLinear
Configs == {<<<<1, 2>>, 1, 0, FALSE>>, <<<<1, 1>>, 2, 1, TRUE>>}

InitAC ==
    /\ rollout \in 1 .. MaxRollout
    /\ num_envs \in 1 .. MaxEnvs
    /\ rollout * num_envs <= MaxCells
    /\ \E config \in Configs :
          /\ gamma = config[1]
          /\ critic_loss_weight = config[2]
          /\ entropy_loss_weight = config[3]
          /\ noisy = config[4]
    /\ policy \in Params
    /\ observations = [t \in 0 .. rollout |-> [e \in 1 .. num_envs |-> 0]]
    /\ rewards = [t \in 0 .. rollout - 1 |-> [e \in 1 .. num_envs |-> 0]]
    /\ actions = [t \in 0 .. rollout |-> [e \in 1 .. num_envs |-> 0]]
    /\ dones = [t \in 0 .. rollout |-> [e \in 1 .. num_envs |-> 0]]
    /\ returns = [t \in 0 .. rollout |-> [e \in 1 .. num_envs |-> QInt(0)]]
    /\ values = <<>>
    /\ step = 0
    /\ logger = [c \in LoggerChannels |-> <<>>]
    /\ loss = QInt(0)
    /\ nsee = 0
    /\ nupdates = 0
    /\ cycle = <<>>
    /\ policyfile = [n \in Names |-> NoFile]
    /\ frames_done = 0
    /\ op = <<"__init__">>
    /\ ret = Return(None)
    /\ IdleTarget
    /\ IdleRB
    /\ IdleST

NextAC == A2C_see

SpecAC == InitAC /\ [][NextAC]_vars

\* ------------------------------------------------- A2C: act, save and load
\* act: one action per environment, sampled from the policy's distribution
\* (the train/eval mode of the network is not part of the state kept here)
A2C_act ==
    \E s \in [1 .. num_envs -> Obs], sampled \in [1 .. num_envs -> Actions] :
        /\ op' = <<"act">>
        /\ ret' = Return(sampled)
        /\ UNCHANGED <<crVars, acVars>>
        /\ UNCHANGED outsideAC

\* save: super().save, then the policy's state_dict goes to <name>-net
A2C_save ==
    \E name \in Names :
        /\ op' = <<"save", name>>
        /\ ret' = Return(None)
        /\ policyfile' = [policyfile EXCEPT ![name] = state_dict(policy)]
        /\ UNCHANGED <<step, observations, actions, policy, critic_loss_weight,
                       entropy_loss_weight, noisy, logger, loss, nsee, nupdates,
                       cycle>>
        /\ UNCHANGED crVars
        /\ UNCHANGED outsideAC

\* self.policy after load found the file <name>-net
load_policy(net, file) == load_state_dict(net, file)

\* load: super().load, then the policy takes the weights in <name>-net;
\* torch.load raises FileNotFoundError when the file is not there
A2C_load ==
    \E name \in Names :
        /\ op' = <<"load", name>>
        /\ IF policyfile[name] = NoFile
           THEN /\ ret' = Raise("FileNotFoundError")
                /\ UNCHANGED policy
           ELSE /\ ret' = Return(None)
                /\ policy' = load_policy(policy, policyfile[name])
        /\ UNCHANGED <<step, observations, actions, critic_loss_weight,
                       entropy_loss_weight, noisy, logger, loss, nsee, nupdates,
                       cycle, policyfile>>
        /\ UNCHANGED crVars
        /\ UNCHANGED outsideAC

\* one environment, one config and one set of freshly built parameters
InitAP ==
    /\ InitAC
    /\ num_envs = 1
    /\ gamma = <<1, 2>>
    /\ policy = [weight |-> 0, bias |-> 0]

NextAP ==
    \/ A2C_see
    \/ A2C_act
    \/ A2C_save
    \/ A2C_load

SpecAP == InitAP /\ [][NextAP]_vars

\* ------------------------------------------------------ a stack of layers
\* A composed agent Layer_k( ... Layer_1(Agent)): the layers of this
\* repository, each at most once, the outermost first.  "Agent" stands for
\* the rest of the chain, down to the base Agent.  A call is followed through
\* the chain of super() calls; what is kept of it is which layer's own logic
\* ran, in which order and with which arguments.
Layers == {"ReplayBufferAgent", "TargetQAgent", "A2C"}

Stacks ==
    {st \in UNION {[1 .. n -> Layers] : n \in 1 .. Cardinality(Layers)} :
        \A i, j \in DOMAIN st : i # j => st[i] # st[j]}

NoExc == "None"

\* how a call went: the own logic that ran, in order, and the exception it
\* ended in
Outcome(ev, exc) == [events |-> ev, exc |-> exc]

\* own logic, then the super() call
own_first(own, below) == Outcome(<<own>> \o below.events, below.exc)

\* the super() call, then own logic (not reached when the call raised)
delegate_first(own, below) ==
    IF below.exc # NoExc THEN below ELSE Outcome(Append(below.events, own), NoExc)

\* the positional parameters of each layer's see, after self
see_params(layer) == IF layer = "ReplayBufferAgent" THEN 6 ELSE 5

\* the base Agent's see: it takes the transition with or without `died`
Agent_see(args) == Outcome(<<<<"Agent", args>>>>, NoExc)

\* ReplayBufferAgent.see: memorize, super().see
RB_see_order(own, below) == own_first(own, below)

\* TargetQAgent.see: super().see, the cadence test and the sync
TQ_see_order(own, below) == delegate_first(own, below)

\* (mutant) the rollout buffer is written before super().see
A2C_see_order_own_first(own, below) == Outcome(<<own>> \o below.events, below.exc)

\* A2C.see: super().see, the rollout buffer writes, the step and the update
A2C_see_order(own, below) == delegate_first(own, below)

RECURSIVE see_chain(_, _)
\* see(*args) on the stack stk: each layer passes on the arguments it got; a
\* call with a number of arguments other than the callee's parameters raises
\* TypeError before the callee's body runs
see_chain(stk, args) ==
    IF stk = <<>>
    THEN Agent_see(args)
    ELSE IF Len(args) # see_params(Head(stk))
    THEN Outcome(<<>>, "TypeError")
    ELSE LET own == <<Head(stk), args>>
             below == see_chain(Tail(stk), args)
         IN  CASE Head(stk) = "ReplayBufferAgent" -> RB_see_order(own, below)
               [] Head(stk) = "TargetQAgent" -> TQ_see_order(own, below)
               [] Head(stk) = "A2C" -> A2C_see_order(own, below)

\* the base Agent's save(name) and load(name)
Agent_persist(args) ==
    IF Len(args) # 1
    THEN Outcome(<<>>, "TypeError")
    ELSE Outcome(<<<<"Agent", args>>>>, NoExc)

\* own logic that opens a file: FileNotFoundError when it is missing
open_file(own, below, missing) ==
    IF below.exc = NoExc /\ missing
    THEN Outcome(Append(below.events, own), "FileNotFoundError")
    ELSE delegate_first(own, below)

\* save_replay_memory / load_replay_memory of a call: the second positional
\* argument, False by default
Flag(args) == IF Len(args) >= 2 THEN args[2] ELSE FALSE

RECURSIVE save_chain(_, _)
\* save(*args) on the stack: ReplayBufferAgent passes on the name only,
\* TargetQAgent has no save of its own, A2C passes on every argument
save_chain(stk, args) ==
    IF stk = <<>>
    THEN Agent_persist(args)
    ELSE LET own == <<Head(stk), args>>
         IN  CASE Head(stk) = "ReplayBufferAgent" ->
                      IF Len(args) > 2
                      THEN Outcome(<<>>, "TypeError")
                      ELSE delegate_first(own, save_chain(Tail(stk), <<args[1]>>))
               [] Head(stk) = "TargetQAgent" -> save_chain(Tail(stk), args)
               [] Head(stk) = "A2C" ->
                      delegate_first(own, save_chain(Tail(stk), args))

RECURSIVE load_chain(_, _, _)
\* load(*args) on the stack; missing: the layers whose own file is not there
load_chain(stk, args, missing) ==
    IF stk = <<>>
    THEN Agent_persist(args)
    ELSE LET own == <<Head(stk), args>>
         IN  CASE Head(stk) = "ReplayBufferAgent" ->
                      IF Len(args) > 2
                      THEN Outcome(<<>>, "TypeError")
                      ELSE open_file(own,
                                     load_chain(Tail(stk), <<args[1]>>, missing),
                                     Flag(args) /\ Head(stk) \in missing)
               [] Head(stk) = "TargetQAgent" ->
                      delegate_first(own, load_chain(Tail(stk), args, missing))
               [] Head(stk) = "A2C" ->
                      open_file(own, load_chain(Tail(stk), args, missing),
                                Head(stk) \in missing)

\* what a call returned or raised
Outcome_ret(out) == IF out.exc = NoExc THEN Return(None) ELSE Raise(out.exc)

\* the transitions the base Agent's see was called with, in order
base_transitions(ev) ==
    LET base == SelectSeq(ev, LAMBDA e : e[1] = "Agent")
    IN  [i \in 1 .. Len(base) |-> SubSeq(base[i][2], 1, 5)]

InStack(layer) == \E i \in DOMAIN stack : stack[i] = layer

\* the driver calls see with the parameters the outermost layer has
ST_see ==
    \E tr \in Transitions, died \in BOOLEAN :
        LET args == IF see_params(stack[1]) = 6 THEN tr \o <<died>> ELSE tr
            out == see_chain(stack, args)
        IN  /\ Len(issued) < MaxSeen
            /\ (see_params(stack[1]) = 5) => ~died
            /\ op' = <<"see", args>>
            /\ ret' = Outcome_ret(out)
            /\ events' = out.events
            /\ issued' = Append(issued, tr)
            /\ observed' = observed \o base_transitions(out.events)
            /\ UNCHANGED stack
            /\ UNCHANGED <<rbVars, tqVars, crVars, acVars>>

\* the driver passes save_replay_memory when the stack has a replay buffer
ST_save ==
    \E name \in Names, save_replay_memory \in BOOLEAN :
        LET args == IF InStack("ReplayBufferAgent")
                    THEN <<name, save_replay_memory>>
                    ELSE <<name>>
            out == save_chain(stack, args)
        IN  /\ InStack("ReplayBufferAgent") \/ ~save_replay_memory
            /\ op' = <<"save", args>>
            /\ ret' = Outcome_ret(out)
            /\ events' = out.events
            /\ UNCHANGED <<stack, issued, observed>>
            /\ UNCHANGED <<rbVars, tqVars, crVars, acVars>>

ST_load ==
    \E name \in Names, load_replay_memory \in BOOLEAN,
       missing \in SUBSET {"ReplayBufferAgent", "A2C"} :
        LET args == IF InStack("ReplayBufferAgent")
                    THEN <<name, load_replay_memory>>
                    ELSE <<name>>
            out == load_chain(stack, args, missing)
        IN  /\ InStack("ReplayBufferAgent") \/ ~load_replay_memory
            /\ \A layer \in missing : InStack(layer)
            /\ op' = <<"load", args>>
            /\ ret' = Outcome_ret(out)
            /\ events' = out.events
            /\ UNCHANGED <<stack, issued, observed>>
            /\ UNCHANGED <<rbVars, tqVars, crVars, acVars>>

InitST ==
    /\ stack \in Stacks
    /\ events = <<>>
    /\ issued = <<>>
    /\ observed = <<>>
    /\ op = <<"__init__">>
    /\ ret = Return(None)
    /\ IdleRB
    /\ IdleTQ
    /\ IdleCR

NextST ==
    \/ ST_see
    \/ ST_save
    \/ ST_load

SpecST == InitST /\ [][NextST]_vars

\* ------------------------------------- ReplayBufferAgent over A2C: save, load
\* The composed agent ReplayBufferAgent(A2C(Agent)), built with
\* (replay_buffer_capacity, config): the replay memory and, below it, the
\* policy network, each with its own file.

\* save: super().save(name), which is A2C.save and writes <name>-net, then
\* the memory file when save_replay_memory is set
LD_save ==
    \E name \in Names, save_replay_memory \in BOOLEAN :
        /\ op' = <<"save", name, save_replay_memory>>
        /\ ret' = Return(None)
        /\ policyfile' = [policyfile EXCEPT ![name] = state_dict(policy)]
        /\ memfile' = IF save_replay_memory
                      THEN [memfile EXCEPT ![name] = write_memory(buffer, pos)]
                      ELSE memfile
        /\ saved' = IF save_replay_memory
                    THEN [saved EXCEPT ![name] = <<buffer, pos>>]
                    ELSE saved
        /\ drawn' = <<>>
        /\ delegated' = None
        /\ UNCHANGED <<replay_buffer_capacity, buffer, pos, recent, nmemorized,
                       fresh>>
        /\ UNCHANGED <<step, observations, actions, policy, critic_loss_weight,
                       entropy_loss_weight, noisy, logger, loss, nsee, nupdates,
                       cycle>>
        /\ UNCHANGED <<tqVars, crVars, stVars>>

\* load: super().load(name), which is A2C.load and reads <name>-net, then
\* the memory file when load_replay_memory is set; an error of super().load
\* ends the call there
LD_load ==
    \E name \in Names, load_replay_memory \in BOOLEAN :
        /\ op' = <<"load", name, load_replay_memory>>
        /\ IF policyfile[name] = NoFile
           THEN /\ ret' = Raise("FileNotFoundError")
                /\ UNCHANGED <<policy, buffer, pos, recent, fresh>>
           ELSE /\ policy' = load_policy(policy, policyfile[name])
                /\ IF ~load_replay_memory
                   THEN /\ ret' = Return(None)
                        /\ UNCHANGED <<buffer, pos, recent, fresh>>
                   ELSE IF memfile[name] = NoFile
                   THEN /\ ret' = Raise("FileNotFoundError")
                        /\ UNCHANGED <<buffer, pos, recent, fresh>>
                   ELSE /\ ret' = Return(None)
                        /\ buffer' = read_memory_buffer(memfile[name])
                        /\ pos' = read_memory_pos(memfile[name])
                        /\ recent' = <<>>
                        /\ fresh' = FALSE
        /\ drawn' = <<>>
        /\ delegated' = None
        /\ UNCHANGED <<replay_buffer_capacity, memfile, nmemorized, saved>>
        /\ UNCHANGED <<step, observations, actions, critic_loss_weight,
                       entropy_loss_weight, noisy, logger, loss, nsee, nupdates,
                       cycle, policyfile>>
        /\ UNCHANGED <<tqVars, crVars, stVars>>

\* A freshly built agent; the directory may hold the <name>-net file of an
\* earlier run that saved without the replay memory.
InitLD ==
    /\ stack = <<"ReplayBufferAgent", "A2C">>
    /\ events = <<>>
    /\ issued = <<>>
    /\ observed = <<>>
    /\ replay_buffer_capacity \in 1 .. MaxCapacity
    /\ buffer = <<>>
    /\ pos = 0
    /\ memfile = [n \in Names |-> NoFile]
    /\ drawn = <<>>
    /\ recent = <<>>
    /\ nmemorized = 0
    /\ fresh = TRUE
    /\ delegated = None
    /\ saved = [n \in Names |-> None]
    /\ rollout = 1
    /\ num_envs = 1
    /\ gamma = <<1, 2>>
    /\ critic_loss_weight = 1
    /\ entropy_loss_weight = 0
    /\ noisy = FALSE
    /\ policy \in Params
    /\ policyfile \in [Names -> {NoFile} \cup Params]
    /\ observations = [t \in 0 .. rollout |-> [e \in 1 .. num_envs |-> 0]]
    /\ rewards = [t \in 0 .. rollout - 1 |-> [e \in 1 .. num_envs |-> 0]]
    /\ actions = [t \in 0 .. rollout |-> [e \in 1 .. num_envs |-> 0]]
    /\ dones = [t \in 0 .. rollout |-> [e \in 1 .. num_envs |-> 0]]
    /\ returns = [t \in 0 .. rollout |-> [e \in 1 .. num_envs |-> QInt(0)]]
    /\ values = <<>>
    /\ step = 0
    /\ logger = [c \in LoggerChannels |-> <<>>]
    /\ loss = QInt(0)
    /\ nsee = 0
    /\ nupdates = 0
    /\ cycle = <<>>
    /\ frames_done = 0
    /\ op = <<"__init__">>
    /\ ret = Return(None)
    /\ IdleTarget

NextLD ==
    \/ RB_memorize
    \/ LD_save
    \/ LD_load

SpecLD == InitLD /\ [][NextLD]_vars

\* ------------------------------------------------------------------ claims

\* the slot of the list at circular offset i from the cursor
AtOffset(i) == buffer[((pos + i) % replay_buffer_capacity) + 1]

\* C1: on a freshly constructed agent, once more than `capacity` transitions
\* have been memorized, the buffer holds exactly `capacity` entries and they
\* are the `capacity` most recently memorized ones in temporal order read
\* circularly from slot pos (buffer[pos] the oldest, buffer[pos-1] the newest).
C1_MostRecentInOrder ==
    (fresh /\ nmemorized > replay_buffer_capacity) =>
        /\ Len(buffer) = replay_buffer_capacity
        /\ Len(recent) = replay_buffer_capacity
        /\ \A i \in 0 .. (replay_buffer_capacity - 1) : AtOffset(i) = recent[i + 1]

\* a full ring of two that has wrapped, with the cursor inside the list
C1_Witness ==
    /\ fresh
    /\ replay_buffer_capacity = 2
    /\ nmemorized > replay_buffer_capacity
    /\ pos = 1
    /\ op = <<"memorize">>
    /\ buffer[1] # buffer[2]

SampleReturned(batch_size) ==
    /\ ret[1] = "return"
    /\ Len(drawn) = batch_size
    /\ \A i, j \in 1 .. batch_size : i # j => drawn[i] # drawn[j]
    /\ \A k \in 1 .. 6 : Len(ret[2][k]) = batch_size
    /\ \A i \in 1 .. batch_size :
          /\ drawn[i] \in 1 .. Len(buffer)
          /\ <<expand_dims(ret[2][1][i]), ret[2][2][i], ret[2][3][i],
               expand_dims(ret[2][4][i]), ret[2][5][i]>> = buffer[drawn[i]]

\* C3 as stated: sample(n) with n <= len(buffer) returns n transitions of
\* pairwise distinct slots, each one stored in the buffer.
C3_Original ==
    (op[1] = "sample" /\ op[2] <= Len(buffer)) => SampleReturned(op[2])

\* C3 amended: sample(n) with 1 <= n <= len(buffer) returns n transitions of
\* pairwise distinct slots, each one stored in the buffer.
C3_SampleDistinct ==
    (op[1] = "sample" /\ 1 <= op[2] /\ op[2] <= Len(buffer)) => SampleReturned(op[2])

\* a batch of two drawn from a buffer that holds two different transitions
C3_Witness ==
    /\ op = <<"sample", 2>>
    /\ ret[1] = "return"
    /\ Len(buffer) = 2
    /\ buffer[drawn[1]] # buffer[drawn[2]]

\* C4: sample(batch_size) with batch_size > len(buffer) raises instead of
\* returning a batch, and leaves buffer and pos as they were.
C4_SampleTooLarge ==
    [][(op'[1] = "sample" /\ op'[2] > Len(buffer)) =>
          /\ ret' = Raise("ValueError")
          /\ buffer' = buffer
          /\ pos' = pos]_vars

\* a batch of two asked of a buffer holding one transition
C4_Witness ==
    /\ op = <<"sample", 2>>
    /\ Len(buffer) = 1
    /\ ret = Raise("ValueError")

\* sampling from the empty buffer
C4_WitnessEmpty ==
    /\ op = <<"sample", 1>>
    /\ buffer = <<>>
    /\ ret = Raise("ValueError")

\* C8 as stated: for every positive num_envs and target_update, the see calls
\* so far ran the hard sync exactly once per multiple of target_update that
\* frames_done has reached or crossed.
C8_Original == see_syncs = frames_done \div target_update

\* C8 amended: when num_envs <= target_update, the see calls so far ran the
\* hard sync exactly once per multiple of target_update that frames_done has
\* reached or crossed (none skipped, none synced twice), also when
\* target_update is not a multiple of num_envs.
C8_SyncCadence ==
    (num_envs <= target_update) => see_syncs = frames_done \div target_update

\* two boundaries (3 and 6) crossed in batches of two frames
C8_Witness ==
    /\ num_envs = 2
    /\ target_update = 3
    /\ frames_done = 6
    /\ see_syncs = 2
    /\ op = <<"see">>

\* the last call ran the hard sync: the constructor, a see whose cadence
\* condition held, or a load that returned
RanHardSync ==
    \/ op = <<"__init__">>
    \/ (op = <<"see">> /\ frames_done % target_update < num_envs)
    \/ (op[1] = "load" /\ ret = Return(None))

\* C9: at the return of every call that runs the hard sync (construction,
\* a see whose cadence condition holds, a load) the target parameters equal
\* the online network's current parameters.
C9_SyncedAtReturn == RanHardSync => target_net = q_net

\* a see that reached exactly target_update frames and synced, the online
\* parameters having changed since they were saved
C9_Witness ==
    /\ op = <<"see">>
    /\ frames_done = target_update
    /\ see_syncs = 1
    /\ netfile["ckpt"] # NoFile
    /\ netfile["ckpt"] # state_dict(q_net)
    /\ target_net = q_net

\* a load that restored saved weights and synced the target to them
C9_WitnessLoad ==
    /\ op = <<"load", "ckpt">>
    /\ ret = Return(None)
    /\ target_net = q_net
    /\ frames_done > 0

\* C10: every step other than a hard sync (a see whose cadence condition is
\* false, estimate_next_state, act, save, a failed load) leaves the target
\* parameters unchanged, and in every state the target parameters are the
\* online parameters as of the most recent hard sync.
C10_FrozenBetweenSyncs ==
    /\ [](target_net = synced)
    /\ [][(~ ((op' = <<"see">> /\ frames_done' % target_update < num_envs)
              \/ (op'[1] = "load" /\ ret' = Return(None))))
          => target_net' = target_net]_vars

\* a see below the cadence that changed the online parameters and left the
\* target behind
C10_Witness ==
    /\ op = <<"see">>
    /\ ~(frames_done % target_update < num_envs)
    /\ q_net # target_net
    /\ target_net = synced

\* C5: after n calls to see on a freshly constructed A2C agent, whatever the
\* done flags, update() has run exactly floor(n / rollout) times, step is
\* n mod rollout, and each of actor_loss, critic_loss and entropy_loss has
\* exactly floor(n / rollout) entries.
C5_RolloutCycle ==
    /\ nupdates = nsee \div rollout
    /\ step = nsee % rollout
    /\ \A c \in {"actor_loss", "critic_loss", "entropy_loss"} :
          Len(logger[c]) = nsee \div rollout

\* the second cycle of a rollout of three under way, an episode having ended
\* in the middle of the first cycle and at the start of the second
C5_Witness ==
    /\ rollout = 3
    /\ nsee = 4
    /\ nupdates = 1
    /\ step = 1
    /\ dones[2][1] = 1
    /\ dones[1][1] = 1
    /\ Len(logger["actor_loss"]) = 1

\* exactly rollout calls: one update, step back at 0
C5_WitnessOneCycle ==
    /\ rollout = 2
    /\ num_envs = 2
    /\ nsee = rollout
    /\ nupdates = 1
    /\ step = 0
    /\ dones[1][2] = 1

RECURSIVE QPow(_, _)
QPow(q, n) == IF n = 0 THEN QInt(1) ELSE QMul(q, QPow(q, n - 1))

RECURSIVE DiscountedSum(_, _, _)
\* rewards[t] + gamma * rewards[t+1] + ... + gamma^(T-t) * values[T] for
\* environment e, T = rollout
DiscountedSum(t, e, k) ==
    IF k = rollout
    THEN QMul(QPow(gamma, k - t), QInt(values[rollout][e]))
    ELSE QAdd(QMul(QPow(gamma, k - t), QInt(rewards[k][e])), DiscountedSum(t, e, k + 1))

\* C6: compute_returns fills returns by the backward recursion
\* returns[T] = values[T], returns[t] = returns[t+1] * gamma * (1 - dones[t+1])
\* + rewards[t] for t = T-1 .. 0 (T = rollout); with all dones 0 that is the
\* discounted sum, and rewards [1,1,1], bootstrap 5, gamma 1/2 give
\* [2.375, 2.75, 3.5, 5].
C6_BackwardRecursion ==
    (op = <<"compute_returns">>) =>
        \A e \in 1 .. num_envs :
            /\ returns[rollout][e] = QInt(values[rollout][e])
            /\ \A t \in 0 .. rollout - 1 :
                  returns[t][e] =
                      QAdd(QMul(QMul(returns[t + 1][e], gamma),
                                QInt(1 - dones[t + 1][e])),
                           QInt(rewards[t][e]))
            /\ (\A t \in 1 .. rollout : dones[t][e] = 0) =>
                  \A t \in 0 .. rollout : returns[t][e] = DiscountedSum(t, e, t)
            /\ ( /\ rollout = 3
                 /\ gamma = <<1, 2>>
                 /\ values[3][e] = 5
                 /\ \A t \in 0 .. 2 : rewards[t][e] = 1 /\ dones[t + 1][e] = 0 ) =>
                  /\ returns[0][e] = <<19, 8>>
                  /\ returns[1][e] = <<11, 4>>
                  /\ returns[2][e] = <<7, 2>>
                  /\ returns[3][e] = <<5, 1>>

\* the hand-computed example, computed
C6_Witness ==
    /\ op = <<"compute_returns">>
    /\ rollout = 3
    /\ gamma = <<1, 2>>
    /\ values[3][1] = 5
    /\ \A t \in 0 .. 2 : rewards[t][1] = 1 /\ dones[t + 1][1] = 0
    /\ returns[0][1] = <<19, 8>>

\* x with the entries of environment e at the slots in DOMAIN y replaced by
\* those of y
Spliced(x, y, e) ==
    [t \in DOMAIN x |->
        [i \in DOMAIN x[t] |-> IF i = e /\ t \in DOMAIN y THEN y[t] ELSE x[t][i]]]

\* C7: when dones[t+1] = 1 for an environment, returns[t] = rewards[t] for
\* it, and a run that differs only in the bootstrap value values[T], in the
\* rewards at slots after t or in the dones at slots after t+1 of that
\* environment gets the same returns at every slot <= t.
C7_DoneMasksBootstrap ==
    (op = <<"compute_returns">>) =>
        \A e \in 1 .. num_envs : \A t \in 0 .. rollout - 1 :
            (dones[t + 1][e] = 1) =>
                /\ returns[t][e] = QInt(rewards[t][e])
                /\ \A v2 \in [{rollout} -> ValueEstimates],
                      r2 \in [t + 1 .. rollout - 1 -> RewardValues],
                      d2 \in [t + 2 .. rollout -> DoneValues] :
                      LET other == compute_returns(returns,
                                                   Spliced(values, v2, e),
                                                   Spliced(rewards, r2, e),
                                                   Spliced(dones, d2, e),
                                                   gamma)
                      IN  \A s \in 0 .. t : other[s][e] = returns[s][e]

\* an episode of environment 1 ends inside the rollout, with a nonzero
\* bootstrap value and reward behind the boundary and a discount that would
\* carry them
C7_Witness ==
    /\ op = <<"compute_returns">>
    /\ rollout = 3
    /\ gamma = <<1, 2>>
    /\ dones[2][1] = 1
    /\ dones[1][1] = 0
    /\ values[3][1] = 5
    /\ rewards[2][1] = 1
    /\ returns[1][1] = QInt(rewards[1][1])

\* two environments, only the first one's episode ends
C7_WitnessTwoEnvs ==
    /\ op = <<"compute_returns">>
    /\ num_envs = 2
    /\ rollout = 2
    /\ gamma = <<1, 1>>
    /\ dones[2][1] = 1
    /\ dones[2][2] = 0
    /\ values[2][1] = 5
    /\ values[2][2] = 5
    /\ returns[1][1] = QInt(rewards[1][1])
    /\ returns[1][2] # QInt(rewards[1][2])

\* the slot of a buffer just behind cursor p
SlotBehind(p) == ((p + replay_buffer_capacity - 1) % replay_buffer_capacity) + 1

\* C12: when ReplayBufferAgent.see calls the next layer's see, the transition
\* passed to this see call is already stored in the buffer, at slot
\* (pos - 1) mod capacity, and pos has already been advanced, so a layer below
\* that samples inside its see can draw it.
C12_MemorizedBeforeDelegation ==
    [][(op' = <<"see">>) =>
          /\ delegated'.pos = (pos + 1) % replay_buffer_capacity
          /\ delegated'.pos = pos'
          /\ delegated'.buffer = buffer'
          /\ SlotBehind(delegated'.pos) <= Len(delegated'.buffer)
          /\ delegated'.buffer[SlotBehind(delegated'.pos)] = stored(delegated'.args)
          /\ \E idx \in random_sample(delegated'.buffer, 1) :
                delegated'.buffer[idx[1]] = stored(delegated'.args)]_vars

\* a see on a full ring of two: the next layer finds the new transition in
\* the last slot, the cursor wrapped to 0, the older transition beside it
C12_Witness ==
    /\ op = <<"see">>
    /\ replay_buffer_capacity = 2
    /\ nmemorized > replay_buffer_capacity
    /\ delegated.pos = 0
    /\ delegated.buffer[2] = stored(delegated.args)
    /\ delegated.buffer[1] # delegated.buffer[2]

\* C13: load(name, load_replay_memory=True) after save(name,
\* save_replay_memory=True), whatever was memorized in between, restores the
\* buffer contents and the cursor pos to the values they had at that save.
C13_MemoryRoundTrip ==
    \A name \in Names :
        (op = <<"load", name, TRUE>> /\ ret = Return(None)) =>
            /\ saved[name] # None
            /\ buffer = saved[name][1]
            /\ pos = saved[name][2]

\* a memory saved with one transition in a ring of two, restored after more
\* transitions than the ring holds had been memorized
C13_Witness ==
    /\ op = <<"load", "ckpt", TRUE>>
    /\ ret = Return(None)
    /\ replay_buffer_capacity = 2
    /\ Len(saved["ckpt"][1]) = 1
    /\ nmemorized > replay_buffer_capacity
    /\ Len(buffer) = 1
    /\ pos = 1

\* C18: a sample that returns and every update_priorities leave the buffer
\* contents, their order, len(buffer) and pos as they were, and
\* update_priorities returns None whatever it is given and whenever it is
\* called.
C18_ReadOnly ==
    [][/\ (op'[1] = "sample" /\ ret'[1] = "return") =>
              (buffer' = buffer /\ pos' = pos)
       /\ (op'[1] = "update_priorities") =>
              (buffer' = buffer /\ pos' = pos /\ ret' = Return(None))]_vars

\* a batch of one drawn from a wrapped ring of two, the list still whole
C18_Witness ==
    /\ op = <<"sample", 1>>
    /\ ret[1] = "return"
    /\ nmemorized > replay_buffer_capacity
    /\ Len(buffer) = 2
    /\ pos = 1

\* priorities handed in with no sample before them, on an empty buffer
C18_WitnessPriorities ==
    /\ op = <<"update_priorities", ones(2)>>
    /\ ret = Return(None)
    /\ buffer = <<>>

\* the step just taken ran update()
UpdateRan == nupdates' = nupdates + 1

\* the newest entry of a logger channel
Newest(channel) == channel[Len(channel)]

\* C15: the entropy term of update() is the mean over exactly the
\* rollout * num_envs entries of the time slots 0 .. rollout-1; every entry of
\* the bootstrap slot is left out, for every num_envs.
C15_EntropyOverRollout ==
    [][UpdateRan =>
          Newest(logger'["entropy_loss"]) =
              mean(flat([t \in 0 .. rollout - 1 |->
                            [e \in 1 .. num_envs |->
                                entropy(policy, observations'[t][e])]],
                        num_envs))]_vars

\* the done flag as the rollout buffer stores it
AsFloat(done) == IF done THEN 1 ELSE 0

\* C16: when update() has just run, for each t in 0 .. rollout-1 the slots
\* observations[t], actions[t], rewards[t] and dones[t+1] hold the state,
\* action, reward and done of the t-th see call of the cycle just completed,
\* and observations[rollout] and dones[rollout] the next_state and done of
\* its last see call.
C16_RolloutFresh ==
    (op = <<"see">> /\ step = 0) =>
        /\ Len(cycle) = rollout
        /\ \A e \in 1 .. num_envs :
              /\ \A t \in 0 .. rollout - 1 :
                    /\ observations[t][e] = cycle[t + 1][e][1]
                    /\ actions[t][e] = cycle[t + 1][e][2]
                    /\ rewards[t][e] = cycle[t + 1][e][3]
                    /\ dones[t + 1][e] = AsFloat(cycle[t + 1][e][5])
              /\ observations[rollout][e] = cycle[rollout][e][4]
              /\ dones[rollout][e] = AsFloat(cycle[rollout][e][5])

\* the second update of a rollout of two, the second cycle's transitions
\* differing from the first cycle's in every slot
C16_Witness ==
    /\ op = <<"see">>
    /\ step = 0
    /\ rollout = 2
    /\ nupdates = 2
    /\ observations[0][1] = 0
    /\ observations[1][1] = 0
    /\ observations[2][1] = 1
    /\ rewards[0][1] = 1
    /\ dones[1][1] = 1
    /\ dones[2][1] = 1

\* the cell (time slot, environment) of flat index k
CellSlot(k) == (k - 1) \div num_envs
CellEnv(k) == ((k - 1) % num_envs) + 1

\* C19: update() takes advantage[t] = returns[t] - values[t] over the slots
\* 0 .. rollout-1, critic_loss = mean(advantage^2), actor_loss =
\* -mean(advantage * log_prob(actions[t])), backpropagates actor_loss +
\* critic_loss_weight * critic_loss - entropy_loss_weight * entropy, and logs
\* these three components to actor_loss, critic_loss and entropy_loss.
C19_LossAssembly ==
    [][UpdateRan =>
          LET n == rollout * num_envs
              advantage(k) ==
                  QSub(returns'[CellSlot(k)][CellEnv(k)],
                       QInt(values'[CellSlot(k)][CellEnv(k)]))
              logp(k) ==
                  log_prob(policy, observations'[CellSlot(k)][CellEnv(k)],
                           actions'[CellSlot(k)][CellEnv(k)])
              critic == QDiv(QSum([k \in 1 .. n |->
                                      QMul(advantage(k), advantage(k))]), n)
              actor == QNeg(QDiv(QSum([k \in 1 .. n |->
                                          QMul(advantage(k), logp(k))]), n))
              ent == Newest(logger'["entropy_loss"])
          IN  /\ Newest(logger'["critic_loss"]) = critic
              /\ Newest(logger'["actor_loss"]) = actor
              /\ loss' = QSub(QAdd(actor, QMul(QInt(critic_loss_weight), critic)),
                              QMul(QInt(entropy_loss_weight), ent))]_vars

\* an update over two environments with both weights in play and every term
\* of the loss nonzero
C19_Witness ==
    /\ nupdates >= 1
    /\ num_envs = 2
    /\ critic_loss_weight = 2
    /\ entropy_loss_weight = 1
    /\ Newest(logger["actor_loss"]) # QInt(0)
    /\ Newest(logger["critic_loss"]) # QInt(0)
    /\ Newest(logger["entropy_loss"]) # QInt(0)
    /\ loss # Newest(logger["actor_loss"])

\* C17: in every state of an A2C agent 0 <= step < rollout, so the slots see
\* writes (step and step + 1) lie inside the buffers (observations and dones
\* have slots 0 .. rollout, actions at least those, rewards 0 .. rollout-1),
\* and step changes only in see, to (step + 1) mod rollout.
C17_StepBound ==
    /\ [](/\ 0 <= step
          /\ step < rollout
          /\ {step, step + 1} \subseteq DOMAIN observations
          /\ {step, step + 1} \subseteq DOMAIN dones
          /\ step \in DOMAIN actions
          /\ step \in DOMAIN rewards
          /\ DOMAIN observations = 0 .. rollout
          /\ DOMAIN dones = 0 .. rollout
          /\ DOMAIN rewards = 0 .. rollout - 1)
    /\ [][/\ (op' = <<"see">>) => (step' = (step + 1) % rollout)
          /\ (op' # <<"see">>) => (step' = step)]_vars

\* a load in the middle of a cycle that put back saved weights: step stays
\* at the last slot of a rollout of three
C17_Witness ==
    /\ op = <<"load", "ckpt">>
    /\ ret = Return(None)
    /\ rollout = 3
    /\ step = 2
    /\ nupdates = 1

\* the layers whose own logic ran in the last call, in order
EventLayers == [i \in DOMAIN events |-> events[i][1]]

\* how deep a layer sits in the stack, the base Agent below them all
Depth(layer) ==
    IF layer = "Agent"
    THEN Len(stack) + 1
    ELSE CHOOSE i \in DOMAIN stack : stack[i] = layer

\* C11 as stated: in every layer the see override runs its own bookkeeping
\* first and then delegates, so on every see call the own logic runs in the
\* order of the stack, outermost layer first, base Agent last.
C11_Original ==
    (op[1] = "see" /\ ret[1] = "return") => EventLayers = Append(stack, "Agent")

\* C11 amended: ReplayBufferAgent.see runs its own bookkeeping first and then
\* delegates; TargetQAgent.see and A2C.see delegate first and run their own
\* logic after the next layer's see has returned.  On every see call the own
\* logic of a ReplayBufferAgent runs before that of everything below it, the
\* own logic of a TargetQAgent or A2C after that of everything below it and
\* after the base Agent's, and a call that returns has run every layer once.
C11_OverrideOrder ==
    (op[1] = "see") =>
        /\ \A i, j \in DOMAIN events :
              (Depth(events[i][1]) < Depth(events[j][1])) =>
                  IF events[i][1] = "ReplayBufferAgent" THEN i < j ELSE j < i
        /\ \A i \in DOMAIN events :
              (events[i][1] \in {"TargetQAgent", "A2C"}) =>
                  \E j \in 1 .. i - 1 : events[j][1] = "Agent"
        /\ (ret[1] = "return") =>
              /\ Len(events) = Len(stack) + 1
              /\ \A layer \in Layers \cup {"Agent"} :
                    (layer = "Agent" \/ InStack(layer)) =>
                        \E i \in DOMAIN events : events[i][1] = layer

\* A2C over TargetQAgent: base Agent, then TargetQAgent, then A2C
C11_Witness ==
    /\ stack = <<"A2C", "TargetQAgent">>
    /\ op[1] = "see"
    /\ ret[1] = "return"
    /\ EventLayers = <<"Agent", "TargetQAgent", "A2C">>

\* a ReplayBufferAgent on its own: memorize, then the base Agent
C11_WitnessReplayBuffer ==
    /\ stack = <<"ReplayBufferAgent">>
    /\ op[1] = "see"
    /\ ret[1] = "return"
    /\ EventLayers = <<"ReplayBufferAgent", "Agent">>

\* C20: on any stack of the layers, every see call reaches the base Agent
\* exactly once with the transition the driver passed, so the base Agent
\* observes the transitions once each and in the order they were issued;
\* every save and load reaches it exactly once with the name.
C20_ExactlyOnce ==
    /\ observed = issued
    /\ (op[1] \in {"save", "load"}) =>
          /\ \E i \in DOMAIN events : events[i] = <<"Agent", <<op[2][1]>>>>
          /\ \A i, j \in DOMAIN events :
                (events[i][1] = "Agent" /\ events[j][1] = "Agent") => i = j

====
